---- MODULE Spec2Model ----
(***************************************************************************)
(* Model of the Eurostat Comext extractor (comext_extractor.py).           *)
(*                                                                         *)
(*   - _parse_rest_api_response : decoder of the category-index dialect    *)
(*   - _parse_json_response     : decoder of the structure dialect         *)
(*   - fetch_data               : primary (REST) request, optional         *)
(*                                secondary (SDMX/CSV) request, outcome    *)
(*                                                                         *)
(* Python dicts whose iteration order the code depends on are sequences of *)
(* records (insertion order); dicts that are only looked up by key are     *)
(* functions whose DOMAIN is the set of keys present.  A compound key      *)
(* "0:1" is the sequence of its segments <<"0", "1">>, that is the result  *)
(* of key.split(':').                                                      *)
(***************************************************************************)
EXTENDS Integers, Sequences, FiniteSets, TLC

VARIABLES call, json_data, result, pc, requests, response, outcome

vars == <<call, json_data, result, pc, requests, response, outcome>>

-----------------------------------------------------------------------------
(* Bounds of the explored inputs *)

MaxObs == 2        \* entries of an observation map
MaxKeyLen == 1     \* segments of a compound key of such a map
MaxCat == 2        \* entries of one dimension catalog

\* segments a key is built from: integer literals, and one that int() rejects
IntSegs == {"0", "1", "-1"}
Segs == IntSegs \cup {"x"}

\* dimension ids in their declared order, category codes, labels, entry ids
DimNames == <<"geo", "time">>
Codes == {"A", "B", "C"}
LabelOf == ("A" :> "Label A") @@ ("B" :> "Label B") @@ ("C" :> "Label C")

None == [kind |-> "None"]

\* HTTP statuses a request is answered with
Statuses == {200, 204, 304, 404, 406, 429, 500}

-----------------------------------------------------------------------------
(* Python built-ins used by the decoders *)

\* int(s): the integer a literal denotes; any other segment raises ValueError
IntOf == ("0" :> 0) @@ ("1" :> 1) @@ ("2" :> 2) @@ ("-1" :> -1) @@ ("-2" :> -2)

IsIntLiteral(s) == s \in DOMAIN IntOf

\* str(i)
StrOf == (0 :> "0") @@ (1 :> "1") @@ (2 :> "2") @@ (-1 :> "-1") @@ (-2 :> "-2")

\* s.upper()
UpperOf == ("geo" :> "GEO") @@ ("time" :> "TIME")

\* d.get(k, default)
Get(d, k, default) == IF k \in DOMAIN d THEN d[k] ELSE default

\* {} : the dict with no key
EmptyDict == [k \in {} |-> None]

\* d[k] = v on a dict d
SetItem(d, k, v) == (k :> v) @@ d

\* [int(idx) for idx in key.split(':')] raises ValueError on the first bad segment
KeyParses(key) == \A i \in 1..Len(key) : IsIntLiteral(key[i])

ParseKey(key) == [i \in 1..Len(key) |-> IntOf[key[i]]]

-----------------------------------------------------------------------------
(* _parse_rest_api_response: the category-index dialect *)

ValueError(msg) == [kind |-> "ValueError", msg |-> msg]

DataFrame(rows) == [kind |-> "DataFrame", rows |-> rows]

\* the reverse lookup without its break: the last entry that carries the
\* index wins (a variant the first-match property must tell apart)
RECURSIVE FirstMatch_NoBreak(_, _, _)
FirstMatch_NoBreak(dim_values, index, n) ==
    IF n > Len(dim_values) THEN 0
    ELSE LET later == FirstMatch_NoBreak(dim_values, index, n + 1)
         IN  IF later > 0 THEN later
             ELSE IF dim_values[n].idx = index THEN n ELSE 0

\* for label, idx in dim_values.items(): if idx == index: ...; break
\* the position of the first entry that carries the index, 0 when the loop
\* runs to its end (the for ... else branch)
RECURSIVE FirstMatch(_, _, _)
FirstMatch(dim_values, index, n) ==
    IF n > Len(dim_values) THEN 0
    ELSE IF dim_values[n].idx = index THEN n
    ELSE FirstMatch(dim_values, index, n + 1)

\* the value written to row[dim_id.upper()] for one dimension
RestCell(dim_values, index) ==
    LET n == FirstMatch(dim_values, index, 1)
    IN  IF n > 0 THEN dim_values[n].code ELSE StrOf[index]

\* for i, dim_id in enumerate(ids): ... (i counts from 1 here)
RECURSIVE RestRowDims(_, _, _, _, _)
RestRowDims(ids, dimensions, indices, i, row) ==
    IF i > Len(ids) THEN row
    ELSE IF i <= Len(indices) /\ ids[i] \in DOMAIN dimensions
         THEN RestRowDims(ids, dimensions, indices, i + 1,
                  SetItem(row, UpperOf[ids[i]],
                          RestCell(dimensions[ids[i]].category.index, indices[i])))
         ELSE RestRowDims(ids, dimensions, indices, i + 1, row)

RestRow(ids, dimensions, indices, value) ==
    SetItem(RestRowDims(ids, dimensions, indices, 1, EmptyDict), "OBS_VALUE", value)

\* the row loop with rows.insert(0, row) for rows.append(row) (a variant the
\* row-order property must tell apart)
RECURSIVE RestRows_Prepend(_, _, _, _, _)
RestRows_Prepend(values, ids, dimensions, n, rows) ==
    IF n > Len(values) THEN DataFrame(rows)
    ELSE IF ~KeyParses(values[n].key)
         THEN ValueError("invalid literal for int()")
         ELSE RestRows_Prepend(values, ids, dimensions, n + 1,
                  <<RestRow(ids, dimensions,
                            ParseKey(values[n].key), values[n].value)>> \o rows)

\* for key, value in values.items(): a key that int() rejects raises out of
\* the loop
RECURSIVE RestRows(_, _, _, _, _)
RestRows(values, ids, dimensions, n, rows) ==
    IF n > Len(values) THEN DataFrame(rows)
    ELSE IF ~KeyParses(values[n].key)
         THEN ValueError("invalid literal for int()")
         ELSE RestRows(values, ids, dimensions, n + 1,
                  Append(rows, RestRow(ids, dimensions,
                                       ParseKey(values[n].key), values[n].value)))

\* the try block with a check of all three top-level fields for the check of
\* 'value' alone (a variant the format-check property must tell apart)
RestBody_Strict(data) ==
    IF ~({"value", "dimension", "id"} \subseteq DOMAIN data)
    THEN ValueError("Invalid REST API response format")
    ELSE LET built == RestRows(data.value, data.id, data.dimension, 1, <<>>)
         IN  IF built.kind = "ValueError" THEN built
             ELSE IF built.rows = <<>> THEN ValueError("No data found in response")
             ELSE built

\* the body of the try block
RestBody(data) ==
    IF "value" \notin DOMAIN data
    THEN ValueError("Invalid REST API response format")
    ELSE LET built == RestRows(data.value, Get(data, "id", <<>>),
                               Get(data, "dimension", EmptyDict), 1, <<>>)
         IN  IF built.kind = "ValueError" THEN built
             ELSE IF built.rows = <<>> THEN ValueError("No data found in response")
             ELSE built

\* except Exception as e: raise ValueError(f"Failed to parse ...: {e}")
\* the error keeps the message of its cause
_parse_rest_api_response(data) == RestBody(data)

-----------------------------------------------------------------------------
(* _parse_json_response: the structure dialect *)

\* dims['observation'] if present, else dims['series'] if present, else []
StructDimensions(dims) ==
    IF "observation" \in DOMAIN dims THEN dims.observation
    ELSE IF "series" \in DOMAIN dims THEN dims.series
    ELSE <<>>

\* data_set.get('observations', {}), or data_set.get('series', {}) when that
\* is empty
StructObservations(data_set) ==
    LET observations == Get(data_set, "observations", <<>>)
    IN  IF observations = <<>> THEN Get(data_set, "series", <<>>) ELSE observations

\* dim_values[index] for an index below len(dim_values): a negative index
\* counts from the end of the list, and one below -len raises IndexError
IndexInRange(dim_values, index) ==
    index >= -Len(dim_values)

ListItem(dim_values, index) ==
    IF index >= 0 THEN dim_values[index + 1]
    ELSE dim_values[Len(dim_values) + index + 1]

\* for i, dim_name in enumerate(dimension_names): ... ; the result is the row,
\* or the IndexError raised on the way
RECURSIVE JsonRowDims(_, _, _, _)
JsonRowDims(dimensions, indices, i, row) ==
    IF i > Len(dimensions) THEN row
    ELSE IF i <= Len(indices)
         THEN LET dim_values == Get(dimensions[i], "values", <<>>)
              IN  IF indices[i] < Len(dim_values)
                  THEN IF IndexInRange(dim_values, indices[i])
                       THEN JsonRowDims(dimensions, indices, i + 1,
                                SetItem(row, dimensions[i].id,
                                        Get(ListItem(dim_values, indices[i]), "id", "")))
                       ELSE ValueError("list index out of range")
                  ELSE JsonRowDims(dimensions, indices, i + 1, row)
         ELSE JsonRowDims(dimensions, indices, i + 1, row)

\* the OBS_VALUE of a row: obs_value[0] of a non-empty list, the 'value' of a
\* dict that has one, the observation value itself otherwise
JsonObsValue(obs_value) ==
    IF obs_value.type = "list" /\ Len(obs_value.items) > 0 THEN obs_value.items[1]
    ELSE IF obs_value.type = "dict" THEN Get(obs_value.fields, "value", obs_value)
    ELSE obs_value

\* for obs_key, obs_value in observations.items(): a key that int() rejects is
\* skipped (continue)
RECURSIVE JsonRows(_, _, _, _)
JsonRows(observations, dimensions, n, rows) ==
    IF n > Len(observations) THEN DataFrame(rows)
    ELSE IF ~KeyParses(observations[n].key)
         THEN JsonRows(observations, dimensions, n + 1, rows)
         ELSE LET row == JsonRowDims(dimensions, ParseKey(observations[n].key),
                                     1, EmptyDict)
              IN  IF "kind" \in DOMAIN row /\ row.kind = "ValueError" THEN row
                  ELSE JsonRows(observations, dimensions, n + 1,
                           Append(rows, SetItem(row, "OBS_VALUE",
                                      JsonObsValue(observations[n].value))))

\* the try block without its check of an empty row list (a variant the
\* no-empty-table property must tell apart)
JsonBody_NoEmptyCheck(data) ==
    IF "dataSets" \notin DOMAIN data
    THEN ValueError("Invalid response format: missing 'dataSets'")
    ELSE IF data.dataSets = <<>> THEN ValueError("list index out of range")
    ELSE LET dimensions == StructDimensions(
                               Get(Get(data, "structure", EmptyDict),
                                   "dimensions", EmptyDict))
         IN  IF \E i \in 1..Len(dimensions) : "id" \notin DOMAIN dimensions[i]
             THEN ValueError("KeyError: 'id'")
             ELSE JsonRows(StructObservations(data.dataSets[1]), dimensions, 1, <<>>)

\* the body of the try block
JsonBody(data) ==
    IF "dataSets" \notin DOMAIN data
    THEN ValueError("Invalid response format: missing 'dataSets'")
    ELSE IF data.dataSets = <<>> THEN ValueError("list index out of range")
    ELSE LET dimensions == StructDimensions(
                               Get(Get(data, "structure", EmptyDict),
                                   "dimensions", EmptyDict))
         IN  IF \E i \in 1..Len(dimensions) : "id" \notin DOMAIN dimensions[i]
             THEN ValueError("KeyError: 'id'")
             ELSE LET built == JsonRows(StructObservations(data.dataSets[1]),
                                        dimensions, 1, <<>>)
                  IN  IF built.kind = "ValueError" THEN built
                      ELSE IF built.rows = <<>>
                           THEN ValueError("No observations found in response")
                           ELSE built

\* except (KeyError, IndexError, ValueError) as e: raise ValueError(...)
\* the error keeps the message of its cause
_parse_json_response(data) == JsonBody(data)

-----------------------------------------------------------------------------
(* Payloads the decoders are applied to *)

SeqsUpTo(S, n) == UNION {[1..k -> S] : k \in 0..n}

Distinct(seq, field) ==
    \A i, j \in 1..Len(seq) : i # j => seq[i][field] # seq[j][field]

\* a primitive observation value
Num(n) == [type |-> "num", n |-> n]

\* observation maps: a dict has each key once; the n-th observation carries
\* the number n, so that the rows of a table tell their order
KeysOf(segs, maxlen) == SeqsUpTo(segs, maxlen) \ {<<>>}

ObsMaps(keys, maxobs) ==
    {[n \in 1..Len(ks) |-> [key |-> ks[n], value |-> Num(n)]] :
        ks \in {q \in SeqsUpTo(keys, maxobs) :
                   \A i, j \in 1..Len(q) : i # j => q[i] # q[j]}}

\* a category-index catalog: dimension.<id>.category.index in declared order,
\* with or without the code -> label mapping category.label
CatIdx == {0, 1}

IndexDicts ==
    {q \in SeqsUpTo([code : Codes, idx : CatIdx], MaxCat) : Distinct(q, "code")}

Labels(index) == [c \in {index[n].code : n \in 1..Len(index)} |-> LabelOf[c]]

Dimension(index, labelled) ==
    [category |-> IF labelled THEN [index |-> index, label |-> Labels(index)]
                  ELSE [index |-> index]]

\* the catalogs of the scenario of the specification: geo {A: 0, B: 1}, time {C: 0}
GeoIndex == <<[code |-> "A", idx |-> 0], [code |-> "B", idx |-> 1]>>
TimeIndex == <<[code |-> "C", idx |-> 0]>>

ScenarioDimension ==
    ("geo" :> Dimension(GeoIndex, TRUE)) @@ ("time" :> Dimension(TimeIndex, TRUE))

IdLists == {SubSeq(DimNames, 1, k) : k \in 0..Len(DimNames)}

\* a dict with the keys `present`, each with its value
Payload(present, fields) == [k \in present |-> fields[k]]

RestPayload(present, value, dimension, id) ==
    Payload(present, [value |-> value, dimension |-> dimension, id |-> id])

\* category-index payloads with many observations over the scenario catalogs
RestRowPayloads ==
    {RestPayload(present, v, ScenarioDimension, i) :
        present \in {{"value", "dimension", "id"}, {"value", "id"},
                     {"value", "dimension"}, {"value"}, {"dimension", "id"}, {}},
        v \in ObsMaps(KeysOf(Segs, MaxKeyLen), MaxObs),
        i \in IdLists}

\* category-index payloads with one observation over many catalogs
RestResolvePayloads ==
    {RestPayload({"value", "dimension", "id"}, v, d, DimNames) :
        v \in ObsMaps(KeysOf({"0", "1"}, Len(DimNames)), 1) \ {<<>>},
        d \in UNION {[ids -> {Dimension(x, l) : x \in IndexDicts, l \in BOOLEAN}] :
                        ids \in SUBSET {DimNames[n] : n \in 1..Len(DimNames)}}}

\* structure payloads: dataSets[0] holds the observation map under
\* 'observations' or under 'series', structure.dimensions holds the catalogs
\* under 'observation' or under 'series'
StructPayload(present, obs_field, observations, dim_field, dimensions) ==
    Payload(present,
        [dataSets |-> <<Payload({obs_field}, [observations |-> observations,
                                               series |-> observations])>>,
         structure |-> [dimensions |->
                           Payload({dim_field}, [observation |-> dimensions,
                                                 series |-> dimensions])]])

StructDim(id, values) == [id |-> id, values |-> values]

\* an entry of a values array, with an id or without
ValueEntries == {[id |-> c] : c \in Codes} \cup {EmptyDict}

ValueLists == SeqsUpTo(ValueEntries, MaxCat)

ScenarioStructDims ==
    <<StructDim("geo", <<[id |-> "A"], [id |-> "B"]>>),
      StructDim("time", <<[id |-> "C"]>>)>>

JsonRowPayloads ==
    {StructPayload(present, of, v, df, SubSeq(ScenarioStructDims, 1, k)) :
        present \in {{"dataSets", "structure"}, {"dataSets"}, {"structure"}},
        of \in {"observations", "series"},
        v \in ObsMaps(KeysOf(Segs, MaxKeyLen), MaxObs),
        df \in {"observation", "series"},
        k \in 0..Len(ScenarioStructDims)}

JsonResolvePayloads ==
    {StructPayload({"dataSets", "structure"}, "observations", v, "observation", d) :
        v \in ObsMaps(KeysOf(IntSegs, Len(DimNames)), 1) \ {<<>>},
        d \in {[n \in 1..Len(vl) |-> StructDim(DimNames[n], vl[n])] :
                  vl \in SeqsUpTo(ValueLists, Len(DimNames))}}

-----------------------------------------------------------------------------
(* The decoders called on their own *)

NotCalled == [kind |-> "not called"]

\* the call has not ended yet
Pending == [kind |-> "pending"]

InitDecode(rest, json) ==
    /\ \/ call = "_parse_rest_api_response" /\ json_data \in rest
       \/ call = "_parse_json_response" /\ json_data \in json
    /\ result = NotCalled
    /\ pc = "call"
    /\ requests = <<>>
    /\ response = None
    /\ outcome = Pending

CallParseRest ==
    /\ pc = "call"
    /\ call = "_parse_rest_api_response"
    /\ result' = _parse_rest_api_response(json_data)
    /\ pc' = "done"
    /\ UNCHANGED <<call, json_data, requests, response, outcome>>

CallParseJson ==
    /\ pc = "call"
    /\ call = "_parse_json_response"
    /\ result' = _parse_json_response(json_data)
    /\ pc' = "done"
    /\ UNCHANGED <<call, json_data, requests, response, outcome>>

NextDecode == CallParseRest \/ CallParseJson

\* the decoders over observation maps of many keys
SpecRows == InitDecode(RestRowPayloads, JsonRowPayloads) /\ [][NextDecode]_vars

\* the decoders over many catalogs
SpecResolve ==
    InitDecode(RestResolvePayloads, JsonResolvePayloads) /\ [][NextDecode]_vars

-----------------------------------------------------------------------------
(* fetch_data *)

\* response bodies: a JSON document, a CSV text (header line and data lines),
\* or the empty text
JsonDocument(data) == [kind |-> "json", data |-> data]

CsvBody(columns, nrows) == [kind |-> "csv", columns |-> columns, nrows |-> nrows]

EmptyBody == [kind |-> "empty"]

FetchPayloads ==
    {RestPayload(present, v, ScenarioDimension, DimNames) :
        present \in {{"value", "dimension", "id"}, {"dimension", "id"}},
        v \in ObsMaps(KeysOf(Segs, MaxKeyLen), MaxObs)}

CsvBodies ==
    {CsvBody(c, n) : c \in {<<" geo ", "obs_value">>, <<"TIME">>}, n \in 0..1}

PrimaryBodies == {JsonDocument(d) : d \in FetchPayloads} \cup CsvBodies \cup {EmptyBody}

SecondaryBodies == CsvBodies \cup {EmptyBody}

\* name.strip().upper() of a CSV column name
StripUpperOf == (" geo " :> "GEO") @@ ("obs_value" :> "OBS_VALUE") @@ ("TIME" :> "TIME")

\* pd.read_csv(StringIO(response.text)) and the normalisation of the columns;
\* read_csv raises EmptyDataError, a ValueError, on a text with no header
ReadCsv(body) ==
    IF body.kind = "csv"
    THEN [kind |-> "DataFrame",
          columns |-> [n \in 1..Len(body.columns) |-> StripUpperOf[body.columns[n]]],
          nrows |-> body.nrows]
    ELSE ValueError("No columns to parse from file")

\* len(response.text): the empty text, a text shorter than the excerpt of the
\* error message, a text longer than it
TextLens(body) == IF body = EmptyBody THEN {0} ELSE {150, 250}

\* e.response.text[:200]
ExcerptLen == 200

\* len(text[:n])
SliceLen(text_len, n) == IF text_len < n THEN text_len ELSE n

\* the error message with the whole text of the response for its first 200
\* characters (a variant the excerpt property must tell apart)
RequestException_NoSlice(e_response) ==
    IF e_response = None THEN [kind |-> "RequestException", has_response |-> FALSE]
    ELSE [kind |-> "RequestException", has_response |-> TRUE,
          status |-> e_response.status,
          excerpt_len |-> e_response.text_len]

\* except RequestException as e: raise RequestException(error_msg); the
\* message names the status of e.response and the first 200 characters of its
\* text when the exception carries a response
RequestException(e_response) ==
    IF e_response = None THEN [kind |-> "RequestException", has_response |-> FALSE]
    ELSE [kind |-> "RequestException", has_response |-> TRUE,
          status |-> e_response.status,
          excerpt_len |-> SliceLen(e_response.text_len, ExcerptLen)]

\* the log of the requests issued: the endpoint, and the status it answered
\* with unless the request raised
Raised(endpoint) == [endpoint |-> endpoint, answered |-> FALSE]

Answered(endpoint, status) ==
    [endpoint |-> endpoint, answered |-> TRUE, status |-> status]

\* response.raise_for_status() raises HTTPError for a status in 400..599
IsErrorStatus(status) == status >= 400 /\ status < 600

\* session.get(url_rest, ...) raises (timeout, no connection)
PrimaryFails ==
    /\ pc = "TryPrimary"
    /\ requests' = Append(requests, Raised("REST"))
    /\ outcome' = RequestException(None)
    /\ pc' = "done"
    /\ UNCHANGED <<call, json_data, result, response>>

\* session.get(url_rest, ...) returns a response
PrimaryResponds ==
    /\ pc = "TryPrimary"
    /\ \E s \in Statuses, b \in PrimaryBodies :
          /\ requests' = Append(requests, Answered("REST", s))
          /\ \E n \in TextLens(b) :
                response' = [status |-> s, body |-> b, text_len |-> n]
    /\ pc' = "PrimaryResponded"
    /\ UNCHANGED <<call, json_data, result, outcome>>

\* status 200: data = response.json(); return self._parse_rest_api_response(data)
\* response.json() raises JSONDecodeError on a body that is no JSON: a
\* RequestException in requests 2.27 and later, a plain ValueError before
PrimaryDecode ==
    /\ pc = "PrimaryResponded"
    /\ response.status = 200
    /\ \/ /\ response.body.kind = "json"
          /\ json_data' = response.body.data
          /\ result' = _parse_rest_api_response(response.body.data)
          /\ outcome' = result'
       \/ /\ response.body.kind # "json"
          /\ outcome' \in {RequestException(None), ValueError("JSONDecodeError")}
          /\ UNCHANGED <<json_data, result>>
    /\ pc' = "done"
    /\ UNCHANGED <<call, requests, response>>

\* status 404 or 406: session.get(url_sdmx, ...) raises
SecondaryFails ==
    /\ pc = "PrimaryResponded"
    /\ response.status \in {404, 406}
    /\ requests' = Append(requests, Raised("SDMX"))
    /\ outcome' = RequestException(None)
    /\ pc' = "done"
    /\ UNCHANGED <<call, json_data, result, response>>

\* the fallback request issued again when the secondary itself answers 404 or
\* 406 (a variant the request-count property must tell apart)
SecondaryResponds_Retry ==
    /\ pc \in {"PrimaryResponded", "SecondaryResponded"}
    /\ response.status \in {404, 406}
    /\ Len(requests) < 3
    /\ \E s \in Statuses, b \in SecondaryBodies :
          /\ requests' = Append(requests, Answered("SDMX", s))
          /\ \E n \in TextLens(b) :
                response' = [status |-> s, body |-> b, text_len |-> n]
    /\ pc' = "SecondaryResponded"
    /\ UNCHANGED <<call, json_data, result, outcome>>

\* status 404 or 406: session.get(url_sdmx, ...) returns a response
SecondaryResponds ==
    /\ pc = "PrimaryResponded"
    /\ response.status \in {404, 406}
    /\ \E s \in Statuses, b \in SecondaryBodies :
          /\ requests' = Append(requests, Answered("SDMX", s))
          /\ \E n \in TextLens(b) :
                response' = [status |-> s, body |-> b, text_len |-> n]
    /\ pc' = "SecondaryResponded"
    /\ UNCHANGED <<call, json_data, result, outcome>>

\* secondary status 200: df = pd.read_csv(...); return df
SecondaryDecode ==
    /\ pc = "SecondaryResponded"
    /\ response.status = 200
    /\ outcome' = ReadCsv(response.body)
    /\ pc' = "done"
    /\ UNCHANGED <<call, json_data, result, requests, response>>

\* raise_for_status reached on a primary 404 as well, as if the fallback
\* were tried for 406 only (a variant the fallback property must tell apart)
RaiseForStatus_On404 ==
    /\ \/ pc = "PrimaryResponded" /\ response.status \notin {200, 406}
       \/ pc = "SecondaryResponded" /\ response.status # 200
    /\ outcome' = IF IsErrorStatus(response.status)
                   THEN RequestException(response)
                   ELSE None
    /\ pc' = "done"
    /\ UNCHANGED <<call, json_data, result, requests, response>>

\* response.raise_for_status() on the last response; when it does not raise,
\* the function ends without a return statement
RaiseForStatus ==
    /\ \/ pc = "PrimaryResponded" /\ response.status \notin {200, 404, 406}
       \/ pc = "SecondaryResponded" /\ response.status # 200
    /\ outcome' = IF IsErrorStatus(response.status)
                   THEN RequestException(response)
                   ELSE None
    /\ pc' = "done"
    /\ UNCHANGED <<call, json_data, result, requests, response>>

Init ==
    /\ call = "fetch_data"
    /\ json_data = None
    /\ result = NotCalled
    /\ pc = "TryPrimary"
    /\ requests = <<>>
    /\ response = None
    /\ outcome = Pending

Next ==
    \/ PrimaryFails
    \/ PrimaryResponds
    \/ PrimaryDecode
    \/ SecondaryFails
    \/ SecondaryResponds
    \/ SecondaryDecode
    \/ RaiseForStatus

Spec == Init /\ [][Next]_vars

-----------------------------------------------------------------------------
(* Properties of fetch_data, checked under Spec *)

Ended == call = "fetch_data" /\ pc = "done"

\* the primary request was answered with a status of S
PrimaryStatusIn(S) ==
    /\ call = "fetch_data"
    /\ Len(requests) >= 1
    /\ requests[1].endpoint = "REST"
    /\ requests[1].answered
    /\ requests[1].status \in S

\* the secondary request was answered with status 200
SecondaryOk ==
    /\ Len(requests) >= 2
    /\ requests[2].endpoint = "SDMX"
    /\ requests[2].answered
    /\ requests[2].status = 200

SecondaryRequests ==
    Cardinality({n \in 1..Len(requests) : requests[n].endpoint = "SDMX"})

\* the decoder rejected the body: no known dialect, or no observation
DialectOrEmptyErrors ==
    {ValueError("Invalid REST API response format"),
     ValueError("No data found in response")}

\* C1: whenever the primary request returns 200 and decoding its body fails
\* (no known dialect, or zero observations), a request to the secondary
\* endpoint has been issued when the call ends in failure.
C1_DecodeFailureTriesSecondary ==
    (Ended /\ PrimaryStatusIn({200}) /\ result \in DialectOrEmptyErrors)
        => SecondaryRequests >= 1

\* C2 as stated: after a primary 404 or 406 exactly one secondary request is
\* issued before anything is reported, and a secondary 200 always ends the
\* call with the secondary's table.
C2_SecondaryOkAlwaysDecoded ==
    PrimaryStatusIn({404, 406}) =>
        /\ pc # "done" => outcome = Pending
        /\ pc = "done" => Len(requests) = 2 /\ SecondaryRequests = 1
        /\ (pc = "done" /\ SecondaryOk) => outcome.kind = "DataFrame"

\* C2 amended: after a primary 404 or 406 exactly one secondary request is
\* issued before anything is reported; when the secondary answers 200 with a
\* body that parses as CSV, the call ends with the secondary's table, its
\* column names trimmed and upper-cased.
C2_NotFoundTriesSecondaryOnce ==
    PrimaryStatusIn({404, 406}) =>
        /\ pc # "done" => outcome = Pending
        /\ pc = "done" => Len(requests) = 2 /\ SecondaryRequests = 1
        /\ (pc = "done" /\ SecondaryOk /\ response.body.kind = "csv") =>
              /\ outcome.kind = "DataFrame"
              /\ outcome.nrows = response.body.nrows
              /\ \/ response.body.columns = <<" geo ", "obs_value">>
                    /\ outcome.columns = <<"GEO", "OBS_VALUE">>
                 \/ response.body.columns = <<"TIME">>
                    /\ outcome.columns = <<"TIME">>

C2_Witness ==
    /\ pc = "done"
    /\ PrimaryStatusIn({404})
    /\ SecondaryOk
    /\ outcome.kind = "DataFrame"
    /\ outcome.columns = <<"GEO", "OBS_VALUE">>

\* C3: for every primary status other than 200, 404 and 406 no secondary
\* request is issued and the call ends by raising the Failed error.
C3_OtherStatusFails ==
    (Ended /\ PrimaryStatusIn(Statuses \ {200, 404, 406})) =>
        /\ SecondaryRequests = 0
        /\ outcome.kind = "RequestException"

\* C4: every call ends by returning a table or by raising the aggregated
\* RequestException; no other error kind reaches the caller and the call
\* never returns without a table.
C4_TableOrFailed ==
    Ended => outcome.kind \in {"DataFrame", "RequestException"}

-----------------------------------------------------------------------------
(* Properties of the decoders, checked under SpecRows and SpecResolve *)

IsRest == call = "_parse_rest_api_response"

IsJson == call = "_parse_json_response"

Decoded == pc = "done" /\ (IsRest \/ IsJson)

\* the body has the top-level field that selects the decoder's dialect
Recognized ==
    \/ IsRest /\ "value" \in DOMAIN json_data
    \/ IsJson /\ "dataSets" \in DOMAIN json_data

\* the observation map the decoder reads
Observations ==
    IF IsRest THEN json_data.value ELSE StructObservations(json_data.dataSets[1])

WellFormed(obs) == {n \in 1..Len(obs) : KeyParses(obs[n].key)}

Malformed(obs) == {n \in 1..Len(obs) : ~KeyParses(obs[n].key)}

\* C5: of an observation map that mixes well-formed keys with keys that have
\* a segment that is no integer, both decoders drop the malformed entries only
\* and return a table with one row per well-formed key.
C5_MalformedKeysDropped ==
    (Decoded /\ Recognized /\ WellFormed(Observations) # {}
             /\ Malformed(Observations) # {}) =>
        /\ result.kind = "DataFrame"
        /\ Len(result.rows) = Cardinality(WellFormed(Observations))

\* C6: of a category-index payload whose N >= 1 keys are all well-formed,
\* _parse_rest_api_response returns a table of exactly N rows, the n-th row
\* made of the n-th observation, whether or not its indices resolve.
C6_OneRowPerKey ==
    (Decoded /\ IsRest /\ Recognized /\ Len(json_data.value) >= 1
             /\ Malformed(json_data.value) = {}) =>
        /\ result.kind = "DataFrame"
        /\ Len(result.rows) = Len(json_data.value)
        /\ \A n \in 1..Len(json_data.value) :
              result.rows[n]["OBS_VALUE"] = json_data.value[n].value

C6_Witness ==
    /\ Decoded /\ IsRest /\ Recognized
    /\ Len(json_data.value) = MaxObs
    /\ Malformed(json_data.value) = {}
    /\ "dimension" \notin DOMAIN json_data
    /\ result.kind = "DataFrame"
    /\ Len(result.rows) = MaxObs

NoObservations ==
    IF IsRest THEN ValueError("No data found in response")
    ELSE ValueError("No observations found in response")

DimIds ==
    IF IsRest THEN Get(json_data, "id", <<>>)
    ELSE LET dimensions == StructDimensions(json_data.structure.dimensions)
         IN  [n \in 1..Len(dimensions) |-> dimensions[n].id]

FirstIndices == ParseKey(Observations[1].key)

FirstRow == result.rows[1]

\* the positions of the dimension order that have an index in the first key
Positions == {i \in 1..Len(DimIds) : i <= Len(FirstIndices)}

\* the catalog of position i in the category-index dialect, <<>> when the
\* dimension has none
IndexOf(i) ==
    IF DimIds[i] \in DOMAIN json_data.dimension
    THEN json_data.dimension[DimIds[i]].category.index
    ELSE <<>>

\* the entries of position i's catalog that carry the index of the key
Matches(i) ==
    IF IsRest
    THEN {n \in 1..Len(IndexOf(i)) : IndexOf(i)[n].idx = FirstIndices[i]}
    ELSE {n \in 1..Len(StructDimensions(json_data.structure.dimensions)[i].values) :
             n - 1 = FirstIndices[i]}

\* the cell of the row for the dimension of position i, under the name
\* either decoder gives the column
HasCell(i) == UpperOf[DimIds[i]] \in DOMAIN FirstRow \/ DimIds[i] \in DOMAIN FirstRow

Cell(i) ==
    IF UpperOf[DimIds[i]] \in DOMAIN FirstRow THEN FirstRow[UpperOf[DimIds[i]]]
    ELSE FirstRow[DimIds[i]]

\* C8: for every position that has an index which matches no catalog entry
\* (index outside the declared range, or no catalog for the dimension), the
\* row's column of that dimension holds the string form of the index and no
\* error is raised, in both decoders.
C8_UnmatchedIndexIsStringified ==
    (Decoded /\ Recognized /\ KeyParses(Observations[1].key)
             /\ \A i \in 1..Len(FirstIndices) : FirstIndices[i] >= 0) =>
        /\ result.kind = "DataFrame"
        /\ \A i \in Positions :
              Matches(i) = {} => HasCell(i) /\ Cell(i) = StrOf[FirstIndices[i]]

\* C9: when the code that carries the index has an entry in the dimension's
\* code -> label mapping, the category-index decoder writes that label to the
\* row; it writes the code only when the mapping has no entry for it.
C9_LabelPreferredOverCode ==
    (Decoded /\ IsRest /\ result.kind = "DataFrame") =>
        \A i \in Positions :
            Matches(i) # {} =>
                LET category == json_data.dimension[DimIds[i]].category
                    code == category.index[CHOOSE n \in Matches(i) :
                                \A m \in Matches(i) : n <= m].code
                IN  /\ HasCell(i)
                    /\ Cell(i) = IF code \in DOMAIN Get(category, "label", EmptyDict)
                                  THEN category.label[code]
                                  ELSE code

\* C10: when one or more codes of a category-index catalog carry the index,
\* the row holds the code of the first of them in the catalog's declared
\* order, and never the string form of the index.
C10_FirstMatchingCodeWins ==
    (Decoded /\ IsRest /\ result.kind = "DataFrame") =>
        \A i \in Positions :
            Matches(i) # {} =>
                /\ HasCell(i)
                /\ \E n \in Matches(i) :
                      /\ \A m \in Matches(i) : n <= m
                      /\ Cell(i) = IndexOf(i)[n].code
                /\ Cell(i) # StrOf[FirstIndices[i]]

\* two codes share the index and the first declared one is not the first in
\* alphabetical order
C10_Witness ==
    /\ Decoded /\ IsRest /\ result.kind = "DataFrame"
    /\ 1 \in Positions
    /\ Cardinality(Matches(1)) = 2
    /\ IndexOf(1)[1].code = "B"
    /\ Cell(1) = "B"

\* the column names a row may have: the upper-cased dimension ids and OBS_VALUE
UpperColumns == {UpperOf[DimNames[i]] : i \in 1..Len(DimNames)} \cup {"OBS_VALUE"}

\* C11: in every row of either decoder each dimension column is named by the
\* upper-cased dimension id, so that both dialects give the same column names.
C11_ColumnsUpperCased ==
    (Decoded /\ result.kind = "DataFrame") =>
        \A n \in 1..Len(result.rows) : DOMAIN result.rows[n] \subseteq UpperColumns

-----------------------------------------------------------------------------
(* Observation values of every JSON kind *)

MaxList == 2

\* a JSON array and a JSON object as the decoders see them
List(items) == [type |-> "list", items |-> items]

Dict(fields) == [type |-> "dict", fields |-> fields]

Primitives == {Num(1), Num(2)}

\* arrays of primitives, the empty array included
ListValues == {List(q) : q \in SeqsUpTo(Primitives, MaxList)}

\* objects with a 'value' field, with another field only, with both, with none
DictValues ==
    {Dict(Payload(present, [value |-> p, status |-> "p"])) :
        present \in SUBSET {"value", "status"}, p \in Primitives}

ObsValues == Primitives \cup ListValues \cup DictValues

\* observation maps with the keys "0", "1", ... in this order, every value of
\* any kind
ValueMaps ==
    {[n \in 1..Len(vs) |-> [key |-> <<StrOf[n - 1]>>, value |-> vs[n]]] :
        vs \in SeqsUpTo(ObsValues, MaxObs)}

RestValuePayloads ==
    {RestPayload({"value", "dimension", "id"}, v, ScenarioDimension, <<"geo">>) :
        v \in ValueMaps}

JsonValuePayloads ==
    {StructPayload({"dataSets", "structure"}, "observations", v, "observation",
                   SubSeq(ScenarioStructDims, 1, 1)) :
        v \in ValueMaps}

\* the decoders over observation values of every kind
SpecValues ==
    InitDecode(RestValuePayloads, JsonValuePayloads) /\ [][NextDecode]_vars

\* the value OBS_VALUE is to hold for an observation value: the first element
\* of a (non-empty) array, the 'value' field of an object that has one, the
\* object itself when it has none, a primitive as it is
Extracted(v) ==
    IF v.type = "list" THEN (IF Len(v.items) > 0 THEN v.items[1] ELSE v)
    ELSE IF v.type = "dict"
         THEN (IF "value" \in DOMAIN v.fields THEN v.fields.value ELSE v)
         ELSE v

\* C12: every row of either decoder has an OBS_VALUE column that holds the
\* first element of an array value, the 'value' field of an object value that
\* has one, the whole object when it has none, and a primitive unchanged.
C12_ObsValueExtracted ==
    (Decoded /\ result.kind = "DataFrame") =>
        /\ Len(result.rows) = Len(Observations)
        /\ \A n \in 1..Len(result.rows) :
              /\ "OBS_VALUE" \in DOMAIN result.rows[n]
              /\ result.rows[n].OBS_VALUE = Extracted(Observations[n].value)

-----------------------------------------------------------------------------
(* Recognition of the dialect *)

InvalidFormat ==
    IF IsRest THEN ValueError("Invalid REST API response format")
    ELSE ValueError("Invalid response format: missing 'dataSets'")

\* the body lacks one of the three top-level fields of the category-index
\* dialect
Incomplete == ~({"value", "dimension", "id"} \subseteq DOMAIN json_data)

-----------------------------------------------------------------------------
(* The error of fetch_data *)

\* fetch_data ended with the error raised at the end of its except clause
Failed == Ended /\ outcome.kind = "RequestException"

\* at least one request was answered with a response
SomeResponse == \E n \in 1..Len(requests) : requests[n].answered

\* the last request issued was answered, with a status raise_for_status rejects
LastResponseRejected ==
    /\ Len(requests) >= 1
    /\ requests[Len(requests)].answered
    /\ IsErrorStatus(requests[Len(requests)].status)

-----------------------------------------------------------------------------
(* The requests of one call *)

RequestsTo(endpoint) == {n \in 1..Len(requests) : requests[n].endpoint = endpoint}

\* C15: in every run of fetch_data at most two requests are issued, at most
\* one to the primary endpoint and at most one to the secondary endpoint, the
\* primary first; the secondary is requested only right after the primary
\* request was answered with a response.
C15_AtMostOneRequestPerEndpoint ==
    call = "fetch_data" =>
        /\ Len(requests) <= 2
        /\ Cardinality(RequestsTo("REST")) <= 1
        /\ Cardinality(RequestsTo("SDMX")) <= 1
        /\ \A n \in 1..Len(requests) : requests[n].endpoint \in {"REST", "SDMX"}
        /\ Len(requests) >= 1 => requests[1].endpoint = "REST"
        /\ \A n \in RequestsTo("SDMX") :
              /\ n = 2
              /\ requests[1].endpoint = "REST"
              /\ requests[1].answered

\* a call has ended after a request to each endpoint
C15_Witness ==
    /\ Ended
    /\ Len(requests) = 2
    /\ requests[1].endpoint = "REST"
    /\ requests[2].endpoint = "SDMX"

-----------------------------------------------------------------------------
(* Negative segments *)

\* every segment of the key is the literal of a non-negative integer
NonNegative(key) ==
    \A i \in 1..Len(key) : IsIntLiteral(key[i]) /\ IntOf[key[i]] >= 0

\* C16: a key with a negative integer segment is malformed: it never produces
\* a row (so it is never resolved against a catalog), and a table has rows
\* for the keys of non-negative integer segments only.
C16_NegativeKeysDropped ==
    (Decoded /\ Recognized /\ result.kind = "DataFrame") =>
        Len(result.rows) =
            Cardinality({n \in 1..Len(Observations) : NonNegative(Observations[n].key)})

====
